---- MODULE Spec2Model ----
(***************************************************************************)
(* Budget tracker: the three menu-driven programs of the repository        *)
(*   FinancialImperativeApp.py  (class BudgetTracker, app = "imperative")  *)
(*   FinancialFunctionalApp.py  (recursive helpers,   app = "functional")  *)
(*   FinancialFanctionalApp.py  (in-memory lists,     app = "fanctional")  *)
(* over one shared state: the in-memory collections, the three JSON files, *)
(* and what the last menu command printed or raised.                       *)
(*                                                                         *)
(* Amounts are Python floats in the source.  The model keeps whole-number  *)
(* amounts as integers and every quotient (goal / 12, spent / limit,       *)
(* goal / months) as an exact fraction [n, d] in lowest terms.             *)
(***************************************************************************)
EXTENDS Integers, Sequences, FiniteSets, TLC

VARIABLES
    app,            \* which of the three programs is running
    pc,             \* "start" | "menu" | "crashed" (uncaught exception) | "exited"
    transactions,   \* in-memory transaction list
    budgets,        \* in-memory budgets dict: category -> limit
    savings,        \* in-memory savings dict
    files,          \* the persistent medium: file name -> document
    op,             \* the last menu command
    err,            \* the exception the last command raised ("none" if it completed)
    out             \* what the last command printed

vars == <<app, pc, transactions, budgets, savings, files, op, err, out>>

----------------------------------------------------------------------------
(* Bounds of the model *)

MaxTxns == 2        \* longest transaction list the record and import commands build
MaxSavings == 30    \* |current_savings| explored

(* Inputs typed at the prompts: each a tuple of characters *)
RawAmounts == { <<"-", "5">>, <<"9">>, <<"a", "b", "c">> }
RawLimits  == { <<"0">>, <<"1", "0">>, <<"a", "b", "c">> }
RawGoals   == { <<"0">>, <<"3", "0">>, <<"a", "b", "c">> }
RawDeposits == { <<"-", "3", "0">>, <<"3", "0">>, <<"a", "b", "c">> }
RawMonths  == { <<"0">>, <<"1", "2">>, <<"-", "4">>, <<"x">> }
Categories == { "food", "rent" }
Types      == { "expense", "income" }
RawDates   == { "" }
RawTrendMonths == { <<"1">>, <<"2">>, <<"x">> }
Today      == "2024-02-10"

----------------------------------------------------------------------------
(* Program constants *)

TRANSACTIONS_FILE == "transactions.json"
BUDGETS_FILE == "budgets.json"
SAVINGS_FILE == "savings.json"
FileNames == { TRANSACTIONS_FILE, BUDGETS_FILE, SAVINGS_FILE }

----------------------------------------------------------------------------
(* Exact fractions for Python's true division *)

Abs(x) == IF x < 0 THEN -x ELSE x

RECURSIVE GCD(_, _)
GCD(a, b) == IF b = 0 THEN a ELSE GCD(b, a % b)

\* a / b for b # 0, in lowest terms with a positive denominator
Frac(a, b) ==
    LET g == GCD(Abs(a), Abs(b))
        s == IF b < 0 THEN -1 ELSE 1
    IN  [n |-> (s * a) \div g, d |-> Abs(b) \div g]

FracGe(x, y) == x.n * y.d >= y.n * x.d

Zero == [n |-> 0, d |-> 1]

ALERT_THRESHOLD == [n |-> 9, d |-> 10]

----------------------------------------------------------------------------
(* float(input(...)) and int(input(...)): an optional sign and decimal     *)
(* digits parse to their value, any other text raises ValueError.          *)

Digits == { "0", "1", "2", "3", "4", "5", "6", "7", "8", "9" }

DigitVal(c) ==
    CASE c = "0" -> 0 [] c = "1" -> 1 [] c = "2" -> 2 [] c = "3" -> 3
      [] c = "4" -> 4 [] c = "5" -> 5 [] c = "6" -> 6 [] c = "7" -> 7
      [] c = "8" -> 8 [] c = "9" -> 9

IsDigits(s) == Len(s) > 0 /\ \A i \in 1..Len(s) : s[i] \in Digits

RECURSIVE DigitsVal(_)
DigitsVal(s) ==
    IF s = <<>> THEN 0
    ELSE 10 * DigitsVal(SubSeq(s, 1, Len(s) - 1)) + DigitVal(s[Len(s)])

float(s) ==
    IF IsDigits(s) THEN [err |-> "none", val |-> DigitsVal(s)]
    ELSE IF Len(s) > 1 /\ s[1] = "-" /\ IsDigits(Tail(s))
         THEN [err |-> "none", val |-> 0 - DigitsVal(Tail(s))]
         ELSE [err |-> "ValueError", val |-> 0]

int(s) == float(s)

----------------------------------------------------------------------------
(* Python dicts that are iterated: a sequence of [k, v] items in insertion *)
(* order, keys unique.                                                     *)

DictKeys(d) == { d[i].k : i \in 1..Len(d) }

DictGet(d, key, default) ==
    IF key \in DictKeys(d)
    THEN d[CHOOSE i \in 1..Len(d) : d[i].k = key].v
    ELSE default

\* d[key] = value: an existing key keeps its place, a new one goes last
DictSet(d, key, value) ==
    IF key \in DictKeys(d)
    THEN [i \in 1..Len(d) |-> IF d[i].k = key THEN [k |-> key, v |-> value] ELSE d[i]]
    ELSE Append(d, [k |-> key, v |-> value])

(* The budgets dict is only looked up, never iterated: a function from the *)
(* categories that have a budget to their limit.                           *)
NoBudgets == [c \in {} |-> 0]

BudgetSet(b, category, amount) ==
    [c \in (DOMAIN b) \cup {category} |-> IF c = category THEN amount ELSE b[c]]

(* The savings dict: the keys present, and the value of each (0 if absent) *)
SavingsKeys == { "goal", "current_savings", "recommended_monthly" }

EmptySavings ==
    [keys |-> {}, goal |-> 0, current_savings |-> 0, recommended_monthly |-> Zero]

DefaultSavings ==
    [keys |-> SavingsKeys, goal |-> 0, current_savings |-> 0,
     recommended_monthly |-> Zero]

SavingsGet(s, key, default) == IF key \in s.keys THEN s[key] ELSE default

SavingsSet(s, key, value) == [s EXCEPT !.keys = @ \cup {key}, ![key] = value]

----------------------------------------------------------------------------
(* Python's float addition, for the reports (spending summary, trends).   *)
(* There an amount is the binary64 value json.load gives it: bits, the 53  *)
(* bits of its significand from the lowest to the highest, and e, the      *)
(* power of two the significand is multiplied by.  The sum of two such     *)
(* values is rounded to 53 bits, ties to even.  Positive normal values and *)
(* zero only.  The other commands are explored on small whole-number       *)
(* amounts, whose float sums are exact: there the model adds integers.     *)

Precision == 53

Reverse(seq) == [i \in 1..Len(seq) |-> seq[Len(seq) + 1 - i]]

Zeros(k) == [i \in 1..k |-> 0]

\* the four bits of a hexadecimal digit, highest first
HexDigitBits(h) == << (h \div 8) % 2, (h \div 4) % 2, (h \div 2) % 2, h % 2 >>

RECURSIVE HexBits(_)
HexBits(digits) ==
    IF digits = <<>> THEN <<>>
    ELSE HexDigitBits(Head(digits)) \o HexBits(Tail(digits))

\* the value float.hex() prints as 0x1.<thirteen digits>p<p>, given as the
\* fourteen digits and p
Binary64(digits, p) ==
    LET msb == HexBits(digits)
    IN  [bits |-> Reverse(SubSeq(msb, Len(msb) - Precision + 1, Len(msb))),
         e |-> p - (Precision - 1)]

\* a + b on bit sequences of the same length (lowest bit first), carry kept
RECURSIVE AddCarry(_, _, _, _)
AddCarry(a, b, i, carry) ==
    IF i > Len(a) THEN (IF carry = 1 THEN <<1>> ELSE <<>>)
    ELSE << (a[i] + b[i] + carry) % 2 >>
           \o AddCarry(a, b, i + 1, (a[i] + b[i] + carry) \div 2)

AddBits(a, b) ==
    LET n == IF Len(a) > Len(b) THEN Len(a) ELSE Len(b)
    IN  AddCarry(a \o Zeros(n - Len(a)), b \o Zeros(n - Len(b)), 1, 0)

\* s * 2^e (the highest bit of s is 1) rounded to Precision bits, ties to even
RoundToNearest(s, e) ==
    LET n == Len(s)
        k == n - Precision
        kept == SubSeq(s, k + 1, n)
        up == s[k] = 1 /\ (kept[1] = 1 \/ \E i \in 1..(k - 1) : s[i] = 1)
        r == IF up THEN AddBits(kept, <<1>>) ELSE kept
    IN  IF k <= 0 THEN [bits |-> Zeros(0 - k) \o s, e |-> e + k]
        ELSE IF Len(r) > Precision
        THEN [bits |-> SubSeq(r, 2, Len(r)), e |-> e + k + 1]
        ELSE [bits |-> r, e |-> e + k]

FloatAdd(x, y) ==
    LET e == IF x.e < y.e THEN x.e ELSE y.e
    IN  RoundToNearest(AddBits(Zeros(x.e - e) \o x.bits, Zeros(y.e - e) \o y.bits), e)

\* 0, the start of every total
FloatZero == [bits |-> <<>>, e |-> 0]

\* a + b as Python evaluates it on floats
Plus(a, b) ==
    IF a = FloatZero THEN b
    ELSE IF b = FloatZero THEN a
    ELSE FloatAdd(a, b)

\* the number a sequence of bits stands for
RECURSIVE BitsVal(_)
BitsVal(bits) == IF bits = <<>> THEN 0 ELSE Head(bits) + 2 * BitsVal(Tail(bits))

\* f"{x:.2f}": the exact value of x rounded to hundredths, ties to even;
\* the result is the number of hundredths printed
Format2f(x) ==
    LET hundredfold == AddBits(AddBits(Zeros(6) \o x.bits, Zeros(5) \o x.bits),
                               Zeros(2) \o x.bits)
        k == 0 - x.e
        s == hundredfold \o Zeros(IF k > Len(hundredfold) THEN k - Len(hundredfold) ELSE 0)
        whole == SubSeq(s, k + 1, Len(s))
        up == /\ s[k] = 1
              /\ \/ \E i \in 1..(k - 1) : s[i] = 1
                 \/ (whole # <<>> /\ whole[1] = 1)
    IN  IF x.bits = <<>> THEN 0
        ELSE IF k <= 0 THEN BitsVal(Zeros(x.e) \o hundredfold)
        ELSE BitsVal(whole) + (IF up THEN 1 ELSE 0)

----------------------------------------------------------------------------
(* The persistent medium.  A file is absent, holds text json.load rejects, *)
(* or holds the document json.dump wrote.                                  *)

Absent  == [kind |-> "absent"]
Corrupt == [kind |-> "corrupt"]
Json(v) == [kind |-> "json", doc |-> v]

\* open(path, "w") + json.dump: the file named `failing` cannot be opened
\* for writing, which raises OSError and leaves it as it was
Write(fs, name, data, failing) ==
    IF name = failing
    THEN [files |-> fs, err |-> "OSError"]
    ELSE [files |-> [fs EXCEPT ![name] = Json(data)], err |-> "none"]

\* what open(path, "r") + json.load raises
ReadErr(fs, name) ==
    CASE fs[name].kind = "absent"  -> "FileNotFoundError"
      [] fs[name].kind = "corrupt" -> "JSONDecodeError"
      [] OTHER -> "none"

WriteFailures == { "none" } \cup FileNames

Txn(amount, category, type, date) ==
    [amount |-> amount, category |-> category, type |-> type, date |-> date]

(* Rows of the CSV files offered to the import command *)
Row(amount, category, type, date) ==
    [amount |-> amount, category |-> category, type |-> type, date |-> date]

CsvFiles ==
    { << Row(<<"9">>, "food", "expense", "2024-01-05") >>,
      << Row(<<"9">>, "rent", "expense", "2024-01-05"),
         Row(<<"a", "b", "c">>, "food", "expense", "2024-01-05") >>,
      << Row(<<"a", "b", "c">>, "food", "expense", "2024-01-05") >> }

(* What may be on disk when a program starts *)
SavedSavings ==
    [keys |-> SavingsKeys, goal |-> 12, current_savings |-> 0,
     recommended_monthly |-> Frac(12, 12)]

InitialTransactions ==
    { Absent, Corrupt, Json(<< Txn(9, "food", "expense", "2024-01-05") >>) }

InitialBudgets == { Absent, Corrupt, Json([c \in {"food"} |-> 10]) }

InitialSavings == { Absent, Corrupt, Json(SavedSavings) }

InitialFiles ==
    { [name \in FileNames |->
          CASE name = TRANSACTIONS_FILE -> t
            [] name = BUDGETS_FILE -> b
            [] OTHER -> s] :
        t \in InitialTransactions, b \in InitialBudgets, s \in InitialSavings }

Apps == { "imperative", "functional", "fanctional" }

NoTrends == [current |-> FloatZero, previous |-> FloatZero]

NoOut ==
    [alerts |-> <<>>, goalReached |-> FALSE, utilization |-> <<>>, target |-> Zero,
     trends |-> NoTrends, summary |-> <<>>, total |-> FloatZero, printed |-> <<>>]

----------------------------------------------------------------------------
(* BudgetTracker.__init__ / module load: nothing read yet *)

Init ==
    /\ app \in Apps
    /\ pc = "start"
    /\ transactions = <<>>
    /\ budgets = NoBudgets
    /\ savings = DefaultSavings
    /\ files \in InitialFiles
    /\ op = "init"
    /\ err = "none"
    /\ out = NoOut

----------------------------------------------------------------------------
(* FinancialImperativeApp.py: class BudgetTracker *)

\* where the menu loop stands after a command raised e: run() catches only
\* ValueError; the other two programs catch nothing
After(e) ==
    IF e = "none" \/ (app = "imperative" /\ e = "ValueError")
    THEN "menu" ELSE "crashed"

\* load_state: each resource read under its own try/except
LoadOr(fs, name, default) ==
    IF ReadErr(fs, name) \in { "FileNotFoundError", "JSONDecodeError" }
    THEN default ELSE fs[name].doc

\* save_state: three writes in a row, nothing caught
SaveState(fs, t, b, s, failing) ==
    LET w1 == Write(fs, TRANSACTIONS_FILE, t, failing)
        w2 == Write(w1.files, BUDGETS_FILE, b, failing)
        w3 == Write(w2.files, SAVINGS_FILE, s, failing)
    IN  IF w1.err # "none" THEN w1
        ELSE IF w2.err # "none" THEN w2
        ELSE w3

\* check_budget_alerts, first loop: spending per category, in first-seen order
RECURSIVE CategorySpending(_, _)
CategorySpending(ts, category_spending) ==
    IF ts = <<>> THEN category_spending
    ELSE LET transaction == Head(ts)
         IN  CategorySpending(Tail(ts),
                 IF transaction.type = "expense"
                 THEN DictSet(category_spending, transaction.category,
                              DictGet(category_spending, transaction.category, 0)
                                  + transaction.amount)
                 ELSE category_spending)

\* is spent / limit >= ALERT_THRESHOLD (limit # 0)
AtThreshold(spent, limit) == FracGe(Frac(spent, limit), ALERT_THRESHOLD)

\* check_budget_alerts, second loop: the alerts printed and the exception raised
RECURSIVE PrintAlerts(_, _, _)
PrintAlerts(items, b, printed) ==
    IF items = <<>> THEN [alerts |-> printed, err |-> "none"]
    ELSE LET category == Head(items).k
             spent == Head(items).v
         IN  IF category \in DOMAIN b
             THEN IF b[category] = 0
                  THEN [alerts |-> printed, err |-> "ZeroDivisionError"]
                  ELSE PrintAlerts(Tail(items), b,
                           IF AtThreshold(spent, b[category])
                           THEN Append(printed, category) ELSE printed)
             ELSE PrintAlerts(Tail(items), b, printed)

ImpCheckBudgetAlerts(ts, b) == PrintAlerts(CategorySpending(ts, <<>>), b, <<>>)

\* record_transaction: append, save_state, check_budget_alerts
RecordTransaction(ts, fs, b, s, amount, category, type, date, failing) ==
    LET t2 == Append(ts, Txn(amount, category, type, IF date = "" THEN Today ELSE date))
        sv == SaveState(fs, t2, b, s, failing)
        al == ImpCheckBudgetAlerts(t2, b)
    IN  IF sv.err # "none"
        THEN [transactions |-> t2, files |-> sv.files, err |-> sv.err, alerts |-> <<>>]
        ELSE [transactions |-> t2, files |-> sv.files, err |-> al.err,
              alerts |-> al.alerts]

\* import_transactions: record_transaction row by row, until a row raises
RECURSIVE ImportRows(_, _, _, _, _, _, _)
ImportRows(rows, ts, fs, b, s, failing, printed) ==
    IF rows = <<>>
    THEN [transactions |-> ts, files |-> fs, err |-> "none", alerts |-> printed]
    ELSE LET row == Head(rows)
             amount == float(row.amount)
             r == RecordTransaction(ts, fs, b, s, amount.val, row.category, row.type,
                                    row.date, failing)
         IN  IF amount.err # "none"
             THEN [transactions |-> ts, files |-> fs, err |-> amount.err,
                   alerts |-> printed]
             ELSE IF r.err # "none"
             THEN [r EXCEPT !.alerts = printed \o r.alerts]
             ELSE ImportRows(Tail(rows), r.transactions, r.files, b, s, failing,
                             printed \o r.alerts)

\* run(): load_state before the first menu
ImpStart ==
    /\ app = "imperative" /\ pc = "start"
    /\ transactions' = LoadOr(files, TRANSACTIONS_FILE, <<>>)
    /\ budgets' = LoadOr(files, BUDGETS_FILE, NoBudgets)
    /\ savings' = LoadOr(files, SAVINGS_FILE, DefaultSavings)
    /\ pc' = "menu" /\ op' = "load" /\ err' = "none" /\ out' = NoOut
    /\ UNCHANGED <<app, files>>

\* choice 1
ImpRecord ==
    /\ app = "imperative" /\ pc = "menu"
    /\ Len(transactions) < MaxTxns
    /\ \E raw \in RawAmounts, category \in Categories, type \in Types,
          failing \in WriteFailures :
         LET amount == float(raw)
             r == RecordTransaction(transactions, files, budgets, savings, amount.val,
                                    category, type, "", failing)
         IN  IF amount.err # "none"
             THEN /\ err' = amount.err /\ out' = NoOut
                  /\ UNCHANGED <<transactions, files>>
             ELSE /\ transactions' = r.transactions
                  /\ files' = r.files
                  /\ err' = r.err
                  /\ out' = [NoOut EXCEPT !.alerts = r.alerts]
    /\ pc' = After(err') /\ op' = "record"
    /\ UNCHANGED <<app, budgets, savings>>

\* choice 2: set_budget
ImpSetBudget ==
    /\ app = "imperative" /\ pc = "menu"
    /\ \E category \in Categories, raw \in RawLimits, failing \in WriteFailures :
         LET amount == float(raw)
             b2 == BudgetSet(budgets, category, amount.val)
             sv == SaveState(files, transactions, b2, savings, failing)
         IN  IF amount.err # "none"
             THEN /\ err' = amount.err /\ UNCHANGED <<budgets, files>>
             ELSE /\ budgets' = b2 /\ files' = sv.files /\ err' = sv.err
    /\ pc' = After(err') /\ op' = "set_budget" /\ out' = NoOut
    /\ UNCHANGED <<app, transactions, savings>>

\* choice 3
ImpCheckAlerts ==
    /\ app = "imperative" /\ pc = "menu"
    /\ LET al == ImpCheckBudgetAlerts(transactions, budgets)
       IN  /\ err' = al.err
           /\ out' = [NoOut EXCEPT !.alerts = al.alerts]
    /\ pc' = After(err') /\ op' = "alerts"
    /\ UNCHANGED <<app, transactions, budgets, savings, files>>

\* the lines of a printed summary: each category with its amount in
\* hundredths, then the total
RECURSIVE PrintSummary(_)
PrintSummary(categories) ==
    IF categories = <<>> THEN <<>>
    ELSE << [k |-> Head(categories).k, v |-> Format2f(Head(categories).v)] >>
             \o PrintSummary(Tail(categories))

\* summarize_spending: the loop over self.transactions
RECURSIVE ImpSummaryLoop(_, _, _)
ImpSummaryLoop(ts, category_totals, total_spending) ==
    IF ts = <<>>
    THEN [category_totals |-> category_totals, total_spending |-> total_spending]
    ELSE LET transaction == Head(ts)
             category == transaction.category
             started == IF category \in DictKeys(category_totals) THEN category_totals
                        ELSE DictSet(category_totals, category, FloatZero)
         IN  IF transaction.type = "expense"
             THEN ImpSummaryLoop(Tail(ts),
                      DictSet(started, category,
                              Plus(DictGet(started, category, FloatZero),
                                   transaction.amount)),
                      Plus(total_spending, transaction.amount))
             ELSE ImpSummaryLoop(Tail(ts), category_totals, total_spending)

ImpSummarizeSpending(ts) == ImpSummaryLoop(ts, <<>>, FloatZero)

\* choice 4
ImpSummarize ==
    /\ app = "imperative" /\ pc = "menu"
    /\ LET sm == ImpSummarizeSpending(transactions)
       IN  out' = [NoOut EXCEPT
                     !.summary = sm.category_totals,
                     !.total = sm.total_spending,
                     !.printed = Append(PrintSummary(sm.category_totals),
                                        [k |-> "Total Spending",
                                         v |-> Format2f(sm.total_spending)])]
    /\ pc' = "menu" /\ op' = "summary" /\ err' = "none"
    /\ UNCHANGED <<app, transactions, budgets, savings, files>>

\* set_savings_goal: the goal and the monthly amount derived from it
SetSavingsGoalStale(s, goal) == SavingsSet(s, "goal", goal)

SetSavingsGoal(s, goal) ==
    SavingsSet(SavingsSet(s, "goal", goal), "recommended_monthly", Frac(goal, 12))

\* choice 5
ImpSetGoal ==
    /\ app = "imperative" /\ pc = "menu"
    /\ \E raw \in RawGoals, failing \in WriteFailures :
         LET goal == float(raw)
             s2 == SetSavingsGoal(savings, goal.val)
             sv == SaveState(files, transactions, budgets, s2, failing)
         IN  IF goal.err # "none"
             THEN /\ err' = goal.err /\ UNCHANGED <<savings, files>>
             ELSE /\ savings' = s2 /\ files' = sv.files /\ err' = sv.err
    /\ pc' = After(err') /\ op' = "set_goal" /\ out' = NoOut
    /\ UNCHANGED <<app, transactions, budgets>>

\* choice 6: update_savings
ImpDeposit ==
    /\ app = "imperative" /\ pc = "menu"
    /\ \E raw \in RawDeposits, failing \in WriteFailures :
         LET amount == float(raw)
             s2 == SavingsSet(savings, "current_savings",
                              savings.current_savings + amount.val)
             sv == SaveState(files, transactions, budgets, s2, failing)
         IN  /\ Abs(savings.current_savings + amount.val) <= MaxSavings
             /\ IF amount.err # "none"
                THEN /\ err' = amount.err /\ out' = NoOut
                     /\ UNCHANGED <<savings, files>>
                ELSE IF "current_savings" \notin savings.keys
                THEN /\ err' = "KeyError" /\ out' = NoOut
                     /\ UNCHANGED <<savings, files>>
                ELSE /\ savings' = s2 /\ files' = sv.files
                     /\ IF sv.err # "none"
                        THEN err' = sv.err /\ out' = NoOut
                        ELSE IF "goal" \notin s2.keys
                        THEN err' = "KeyError" /\ out' = NoOut
                        ELSE /\ err' = "none"
                             /\ out' = [NoOut EXCEPT
                                          !.goalReached = (s2.current_savings >= s2.goal)]
    /\ pc' = After(err') /\ op' = "deposit"
    /\ UNCHANGED <<app, transactions, budgets>>

\* choice 7: import_transactions
ImpImport ==
    /\ app = "imperative" /\ pc = "menu"
    /\ \E rows \in CsvFiles, failing \in WriteFailures :
         LET r == ImportRows(rows, transactions, files, budgets, savings, failing, <<>>)
         IN  /\ Len(transactions) + Len(rows) <= MaxTxns
             /\ transactions' = r.transactions
             /\ files' = r.files
             /\ err' = r.err
             /\ out' = [NoOut EXCEPT !.alerts = r.alerts]
    /\ pc' = After(err') /\ op' = "import"
    /\ UNCHANGED <<app, budgets, savings>>

\* choice 8: save_state
ImpExport ==
    /\ app = "imperative" /\ pc = "menu"
    /\ \E failing \in WriteFailures :
         LET sv == SaveState(files, transactions, budgets, savings, failing)
         IN  files' = sv.files /\ err' = sv.err
    /\ pc' = After(err') /\ op' = "export" /\ out' = NoOut
    /\ UNCHANGED <<app, transactions, budgets, savings>>

\* choice 9
ImpExit ==
    /\ app = "imperative" /\ pc = "menu"
    /\ pc' = "exited" /\ op' = "exit" /\ err' = "none" /\ out' = NoOut
    /\ UNCHANGED <<app, transactions, budgets, savings, files>>

----------------------------------------------------------------------------
(* FinancialFunctionalApp.py: every command reloads the files it needs *)

\* ensure_files_exist over the list `names`: an absent file is created with
\* its default content
RECURSIVE EnsureFilesExist(_, _, _, _)
EnsureFilesExist(fs, names, defaults, failing) ==
    IF names = <<>> THEN [files |-> fs, err |-> "none"]
    ELSE LET w == Write(fs, Head(names), Head(defaults), failing)
         IN  IF fs[Head(names)].kind # "absent"
             THEN EnsureFilesExist(fs, Tail(names), Tail(defaults), failing)
             ELSE IF w.err # "none" THEN w
             ELSE EnsureFilesExist(w.files, Tail(names), Tail(defaults), failing)

\* load_data: open + json.load, nothing caught
LoadData(fs, name) ==
    IF ReadErr(fs, name) # "none"
    THEN [err |-> ReadErr(fs, name), data |-> <<>>]
    ELSE [err |-> "none", data |-> fs[name].doc]

\* the top of loop(): transactions and budgets are loaded before the choice
\* is looked at
LoopLoad(fs) ==
    LET t == LoadData(fs, TRANSACTIONS_FILE)
        b == LoadData(fs, BUDGETS_FILE)
    IN  IF t.err # "none" THEN [err |-> t.err, transactions |-> <<>>, budgets |-> NoBudgets]
        ELSE IF b.err # "none"
        THEN [err |-> b.err, transactions |-> <<>>, budgets |-> NoBudgets]
        ELSE [err |-> "none", transactions |-> t.data, budgets |-> b.data]

\* filter_transactions(transactions, lambda t: t["type"] == "expense")
RECURSIVE FilterExpenses(_)
FilterExpenses(ts) ==
    IF ts = <<>> THEN <<>>
    ELSE IF Head(ts).type = "expense"
         THEN <<Head(ts)>> \o FilterExpenses(Tail(ts))
         ELSE FilterExpenses(Tail(ts))

\* calculate_utilization(expenses_list, utilization)
RECURSIVE CalculateUtilization(_, _, _)
CalculateUtilization(expenses_list, b, utilization) ==
    IF expenses_list = <<>> THEN utilization
    ELSE LET txn == Head(expenses_list)
             category == txn.category
         IN  CalculateUtilization(Tail(expenses_list), b,
                 IF category \in DOMAIN b
                 THEN DictSet(utilization, category,
                              DictGet(utilization, category, 0) + txn.amount)
                 ELSE utilization)

FunCalculateBudgetUtilization(ts, b) ==
    CalculateUtilization(FilterExpenses(ts), b, <<>>)

\* check_alerts(alert_list)
RECURSIVE CheckAlerts(_, _, _)
CheckAlerts(alert_list, b, printed) ==
    IF alert_list = <<>> THEN [alerts |-> printed, err |-> "none"]
    ELSE LET category == Head(alert_list).k
             spent == Head(alert_list).v
         IN  IF b[category] = 0
             THEN [alerts |-> printed, err |-> "ZeroDivisionError"]
             ELSE CheckAlerts(Tail(alert_list), b,
                      IF AtThreshold(spent, b[category])
                      THEN Append(printed, category) ELSE printed)

FunCheckBudgetAlerts(ts, b) ==
    CheckAlerts(FunCalculateBudgetUtilization(ts, b), b, <<>>)

\* the list comprehension of import_transactions: every row converted, or
\* the first ValueError
RECURSIVE NewTransactions(_)
NewTransactions(rows) ==
    IF rows = <<>> THEN [err |-> "none", list |-> <<>>]
    ELSE LET amount == float(Head(rows).amount)
             rest == NewTransactions(Tail(rows))
         IN  IF amount.err # "none" THEN [err |-> amount.err, list |-> <<>>]
             ELSE IF rest.err # "none" THEN rest
             ELSE [err |-> "none",
                   list |-> << Txn(amount.val, Head(rows).category, Head(rows).type,
                                   Head(rows).date) >> \o rest.list]

\* menu_loop(): ensure_files_exist()
FunStart ==
    /\ app = "functional" /\ pc = "start"
    /\ \E failing \in WriteFailures :
         LET e == EnsureFilesExist(files,
                      <<TRANSACTIONS_FILE, BUDGETS_FILE, SAVINGS_FILE>>,
                      << <<>>, NoBudgets, EmptySavings >>, failing)
         IN  files' = e.files /\ err' = e.err
    /\ pc' = After(err') /\ op' = "load" /\ out' = NoOut
    /\ UNCHANGED <<app, transactions, budgets, savings>>

\* choice "1"
FunRecord ==
    /\ app = "functional" /\ pc = "menu"
    /\ \E raw \in RawAmounts, category \in Categories, type \in Types,
          date \in RawDates, failing \in WriteFailures :
         LET ld == LoopLoad(files)
             amount == float(raw)
             txn == Txn(amount.val, category, type, IF date = "" THEN Today ELSE date)
             w == Write(files, TRANSACTIONS_FILE, ld.transactions \o <<txn>>, failing)
             al == FunCheckBudgetAlerts(ld.transactions \o <<txn>>, ld.budgets)
         IN  /\ Len(ld.transactions) < MaxTxns
             /\ IF ld.err # "none"
                THEN err' = ld.err /\ out' = NoOut /\ UNCHANGED files
                ELSE IF amount.err # "none"
                THEN err' = amount.err /\ out' = NoOut /\ UNCHANGED files
                ELSE IF w.err # "none"
                THEN err' = w.err /\ out' = NoOut /\ UNCHANGED files
                ELSE /\ files' = w.files
                     /\ err' = al.err
                     /\ out' = [NoOut EXCEPT !.alerts = al.alerts]
    /\ pc' = After(err') /\ op' = "record"
    /\ UNCHANGED <<app, transactions, budgets, savings>>

\* choice "2"
FunSetBudget ==
    /\ app = "functional" /\ pc = "menu"
    /\ \E category \in Categories, raw \in RawLimits, failing \in WriteFailures :
         LET ld == LoopLoad(files)
             amount == float(raw)
             w == Write(files, BUDGETS_FILE,
                        BudgetSet(ld.budgets, category, amount.val), failing)
         IN  IF ld.err # "none"
             THEN err' = ld.err /\ UNCHANGED files
             ELSE IF amount.err # "none"
             THEN err' = amount.err /\ UNCHANGED files
             ELSE files' = w.files /\ err' = w.err
    /\ pc' = After(err') /\ op' = "set_budget" /\ out' = NoOut
    /\ UNCHANGED <<app, transactions, budgets, savings>>

\* choice "3"
FunCheckAlerts ==
    /\ app = "functional" /\ pc = "menu"
    /\ LET ld == LoopLoad(files)
           al == FunCheckBudgetAlerts(ld.transactions, ld.budgets)
       IN  IF ld.err # "none"
           THEN err' = ld.err /\ out' = NoOut
           ELSE err' = al.err /\ out' = [NoOut EXCEPT !.alerts = al.alerts]
    /\ pc' = After(err') /\ op' = "alerts"
    /\ UNCHANGED <<app, transactions, budgets, savings, files>>

\* calculate_totals(expenses_list, totals)
RECURSIVE CalculateTotals(_, _)
CalculateTotals(expenses_list, totals) ==
    IF expenses_list = <<>> THEN totals
    ELSE LET txn == Head(expenses_list)
         IN  CalculateTotals(Tail(expenses_list),
                 DictSet(totals, txn.category,
                         Plus(DictGet(totals, txn.category, FloatZero), txn.amount)))

\* sum(d.values())
RECURSIVE SumValues(_, _)
SumValues(d, total) ==
    IF d = <<>> THEN total ELSE SumValues(Tail(d), Plus(total, Head(d).v))

FunSummarizeSpending(ts) ==
    LET category_totals == CalculateTotals(FilterExpenses(ts), <<>>)
    IN  [category_totals |-> category_totals,
         total_spent |-> SumValues(category_totals, FloatZero)]

\* choice "4"
FunSummarize ==
    /\ app = "functional" /\ pc = "menu"
    /\ LET ld == LoopLoad(files)
           sm == FunSummarizeSpending(ld.transactions)
       IN  IF ld.err # "none"
           THEN err' = ld.err /\ out' = NoOut
           ELSE /\ err' = "none"
                /\ out' = [NoOut EXCEPT
                             !.summary = sm.category_totals,
                             !.total = sm.total_spent,
                             !.printed = Append(PrintSummary(sm.category_totals),
                                                [k |-> "Total Spending",
                                                 v |-> Format2f(sm.total_spent)])]
    /\ pc' = After(err') /\ op' = "summary"
    /\ UNCHANGED <<app, transactions, budgets, savings, files>>

\* choice "5": set_savings_goal
FunSetGoal ==
    /\ app = "functional" /\ pc = "menu"
    /\ \E raw \in RawGoals, failing \in WriteFailures :
         LET ld == LoopLoad(files)
             sv == LoadData(files, SAVINGS_FILE)
             goal == float(raw)
             s2 == SavingsSet(SavingsSet(SavingsSet(sv.data,
                       "goal", goal.val),
                       "recommended_monthly", Frac(goal.val, 12)),
                       "current_savings", SavingsGet(sv.data, "current_savings", 0))
             w == Write(files, SAVINGS_FILE, s2, failing)
         IN  IF ld.err # "none" THEN err' = ld.err /\ UNCHANGED files
             ELSE IF sv.err # "none" THEN err' = sv.err /\ UNCHANGED files
             ELSE IF goal.err # "none" THEN err' = goal.err /\ UNCHANGED files
             ELSE files' = w.files /\ err' = w.err
    /\ pc' = After(err') /\ op' = "set_goal" /\ out' = NoOut
    /\ UNCHANGED <<app, transactions, budgets, savings>>

\* choice "6": update_savings(float(input(...)))
FunDeposit ==
    /\ app = "functional" /\ pc = "menu"
    /\ \E raw \in RawDeposits, failing \in WriteFailures :
         LET ld == LoopLoad(files)
             amount == float(raw)
             sv == LoadData(files, SAVINGS_FILE)
             current_savings == SavingsGet(sv.data, "current_savings", 0) + amount.val
             s2 == SavingsSet(sv.data, "current_savings", current_savings)
             w == Write(files, SAVINGS_FILE, s2, failing)
         IN  IF ld.err # "none" THEN err' = ld.err /\ out' = NoOut /\ UNCHANGED files
             ELSE IF amount.err # "none"
             THEN err' = amount.err /\ out' = NoOut /\ UNCHANGED files
             ELSE IF sv.err # "none"
             THEN err' = sv.err /\ out' = NoOut /\ UNCHANGED files
             ELSE /\ Abs(current_savings) <= MaxSavings
                  /\ files' = w.files
                  /\ IF w.err # "none" THEN err' = w.err /\ out' = NoOut
                     ELSE IF "goal" \notin s2.keys
                     THEN err' = "KeyError" /\ out' = NoOut
                     ELSE /\ err' = "none"
                          /\ out' = [NoOut EXCEPT
                                       !.goalReached = (current_savings >= s2.goal)]
    /\ pc' = After(err') /\ op' = "deposit"
    /\ UNCHANGED <<app, transactions, budgets, savings>>

\* choice "7": import_transactions
FunImport ==
    /\ app = "functional" /\ pc = "menu"
    /\ \E rows \in CsvFiles, failing \in WriteFailures :
         LET ld == LoopLoad(files)
             new_transactions == NewTransactions(rows)
             w == Write(files, TRANSACTIONS_FILE,
                        ld.transactions \o new_transactions.list, failing)
         IN  /\ Len(ld.transactions) + Len(rows) <= MaxTxns
             /\ IF ld.err # "none" THEN err' = ld.err /\ UNCHANGED files
                ELSE IF new_transactions.err # "none"
                THEN err' = new_transactions.err /\ UNCHANGED files
                ELSE files' = w.files /\ err' = w.err
    /\ pc' = After(err') /\ op' = "import" /\ out' = NoOut
    /\ UNCHANGED <<app, transactions, budgets, savings>>

\* choice "9" (the files are loaded before the choice is compared)
FunExit ==
    /\ app = "functional" /\ pc = "menu"
    /\ err' = LoopLoad(files).err
    /\ pc' = IF err' = "none" THEN "exited" ELSE "crashed"
    /\ op' = "exit" /\ out' = NoOut
    /\ UNCHANGED <<app, transactions, budgets, savings, files>>

----------------------------------------------------------------------------
(* FinancialFanctionalApp.py: lists held in memory, saved on exit *)

\* calculate_budget_utilization: filter(is_expense_in_budget), then the loop
RECURSIVE FanUtilizationLoop(_, _, _)
FanUtilizationLoop(ts, b, utilization) ==
    IF ts = <<>> THEN utilization
    ELSE LET transaction == Head(ts)
         IN  FanUtilizationLoop(Tail(ts), b,
                 IF transaction.type = "expense" /\ transaction.category \in DOMAIN b
                 THEN DictSet(utilization, transaction.category,
                              DictGet(utilization, transaction.category, 0)
                                  + transaction.amount)
                 ELSE utilization)

FanUtilizationUnfiltered(ts, b) == CategorySpending(ts, <<>>)

FanCalculateBudgetUtilization(ts, b) == FanUtilizationLoop(ts, b, <<>>)

\* savings_target: goal / months
savings_target(goal, months) ==
    IF months = 0 THEN [err |-> "ZeroDivisionError", val |-> Zero]
    ELSE [err |-> "none", val |-> Frac(goal, months)]

\* menu_loop(): ensure_files_exist(), then both files loaded once
FanStart ==
    /\ app = "fanctional" /\ pc = "start"
    /\ \E failing \in WriteFailures :
         LET e == EnsureFilesExist(files, <<TRANSACTIONS_FILE, BUDGETS_FILE>>,
                                   << <<>>, NoBudgets >>, failing)
             ld == LoopLoad(e.files)
         IN  /\ files' = e.files
             /\ err' = IF e.err # "none" THEN e.err ELSE ld.err
             /\ transactions' = IF err' = "none" THEN ld.transactions ELSE <<>>
             /\ budgets' = IF err' = "none" THEN ld.budgets ELSE NoBudgets
    /\ pc' = After(err') /\ op' = "load" /\ out' = NoOut
    /\ UNCHANGED <<app, savings>>

\* choice "1": input_transaction, add_transaction
FanRecord ==
    /\ app = "fanctional" /\ pc = "menu"
    /\ Len(transactions) < MaxTxns
    /\ \E raw \in RawAmounts, category \in Categories, type \in Types,
          date \in RawDates :
         LET amount == float(raw)
         IN  IF amount.err # "none"
             THEN err' = amount.err /\ UNCHANGED transactions
             ELSE /\ err' = "none"
                  /\ transactions' = transactions \o
                       << Txn(amount.val, category, type,
                              IF date = "" THEN Today ELSE date) >>
    /\ pc' = After(err') /\ op' = "record" /\ out' = NoOut
    /\ UNCHANGED <<app, budgets, savings, files>>

\* choice "2": update_budget(category, amount)
FanSetBudget ==
    /\ app = "fanctional" /\ pc = "menu"
    /\ \E category \in Categories, raw \in RawLimits :
         LET amount == float(raw)
         IN  IF amount.err # "none"
             THEN err' = amount.err /\ UNCHANGED budgets
             ELSE err' = "none" /\ budgets' = BudgetSet(budgets, category, amount.val)
    /\ pc' = After(err') /\ op' = "set_budget" /\ out' = NoOut
    /\ UNCHANGED <<app, transactions, savings, files>>

\* choice "3"
FanUtilization ==
    /\ app = "fanctional" /\ pc = "menu"
    /\ out' = [NoOut EXCEPT
                 !.utilization = FanCalculateBudgetUtilization(transactions, budgets)]
    /\ pc' = "menu" /\ op' = "utilization" /\ err' = "none"
    /\ UNCHANGED <<app, transactions, budgets, savings, files>>

\* choice "4"
FanTarget ==
    /\ app = "fanctional" /\ pc = "menu"
    /\ \E rawGoal \in RawGoals, rawMonths \in RawMonths :
         LET goal == float(rawGoal)
             months == int(rawMonths)
             target == savings_target(goal.val, months.val)
         IN  IF goal.err # "none" THEN err' = goal.err /\ out' = NoOut
             ELSE IF months.err # "none" THEN err' = months.err /\ out' = NoOut
             ELSE IF target.err # "none" THEN err' = target.err /\ out' = NoOut
             ELSE err' = "none" /\ out' = [NoOut EXCEPT !.target = target.val]
    /\ pc' = After(err') /\ op' = "target"
    /\ UNCHANGED <<app, transactions, budgets, savings, files>>

is_expense(transaction) == transaction.type = "expense"

\* summarize_spending: filter(is_expense, transactions), then the loop
RECURSIVE SpendingLoop(_, _)
SpendingLoop(expenses, spending) ==
    IF expenses = <<>> THEN spending
    ELSE LET transaction == Head(expenses)
         IN  SpendingLoop(Tail(expenses),
                 DictSet(spending, transaction.category,
                         Plus(DictGet(spending, transaction.category, FloatZero),
                              transaction.amount)))

summarize_spending(ts) == SpendingLoop(SelectSeq(ts, is_expense), <<>>)

\* choice "5": the amounts and their sum are printed as they are (the text
\* of a float names exactly one float), so the printed lines are the summary
FanSummarize ==
    /\ app = "fanctional" /\ pc = "menu"
    /\ LET spending == summarize_spending(transactions)
       IN  out' = [NoOut EXCEPT !.summary = spending,
                                !.total = SumValues(spending, FloatZero)]
    /\ pc' = "menu" /\ op' = "summary" /\ err' = "none"
    /\ UNCHANGED <<app, transactions, budgets, savings, files>>

\* the characters of a date string
Text(s) ==
    CASE s = "2024-01-05" -> <<"2", "0", "2", "4", "-", "0", "1", "-", "0", "5">>
      [] s = "2024-02-10" -> <<"2", "0", "2", "4", "-", "0", "2", "-", "1", "0">>
      [] s = "2024-01"    -> <<"2", "0", "2", "4", "-", "0", "1">>
      [] s = "2024-ab-05" -> <<"2", "0", "2", "4", "-", "a", "b", "-", "0", "5">>
      [] s = "2024"       -> <<"2", "0", "2", "4">>
      [] s = ""           -> <<>>

\* str.split(sep): the fields between the separators
RECURSIVE Split(_, _)
Split(cs, sep) ==
    IF \A i \in 1..Len(cs) : cs[i] # sep THEN << cs >>
    ELSE LET i == CHOOSE j \in 1..Len(cs) :
                      cs[j] = sep /\ \A k \in 1..(j - 1) : cs[k] # sep
         IN  << SubSeq(cs, 1, i - 1) >> \o Split(SubSeq(cs, i + 1, Len(cs)), sep)

\* get_month = lambda t: int(t['date'].split('-')[1])
get_month(t) ==
    LET fields == Split(Text(t.date), "-")
    IN  IF Len(fields) < 2 THEN [err |-> "IndexError", val |-> 0]
        ELSE int(fields[2])

\* sum(t['amount'] for t in transactions if get_month(t) == month)
RECURSIVE SumForMonth(_, _, _)
SumForMonth(ts, month, total) ==
    IF ts = <<>> THEN [err |-> "none", val |-> total]
    ELSE LET m == get_month(Head(ts))
         IN  IF m.err # "none" THEN [err |-> m.err, val |-> total]
             ELSE SumForMonth(Tail(ts), month,
                      IF m.val = month THEN Plus(total, Head(ts).amount) ELSE total)

analyze_trends(ts, current_month, previous_month) ==
    LET current_spending == SumForMonth(ts, current_month, FloatZero)
        previous_spending == SumForMonth(ts, previous_month, FloatZero)
    IN  IF current_spending.err # "none"
        THEN [err |-> current_spending.err, trends |-> NoTrends]
        ELSE IF previous_spending.err # "none"
        THEN [err |-> previous_spending.err, trends |-> NoTrends]
        ELSE [err |-> "none",
              trends |-> [current |-> current_spending.val,
                          previous |-> previous_spending.val]]

\* choice "6"
FanTrends ==
    /\ app = "fanctional" /\ pc = "menu"
    /\ \E rawCurrent \in RawTrendMonths, rawPrevious \in RawTrendMonths :
         LET current_month == int(rawCurrent)
             previous_month == int(rawPrevious)
             trends == analyze_trends(transactions, current_month.val,
                                      previous_month.val)
         IN  IF current_month.err # "none"
             THEN err' = current_month.err /\ out' = NoOut
             ELSE IF previous_month.err # "none"
             THEN err' = previous_month.err /\ out' = NoOut
             ELSE err' = trends.err /\ out' = [NoOut EXCEPT !.trends = trends.trends]
    /\ pc' = After(err') /\ op' = "trends"
    /\ UNCHANGED <<app, transactions, budgets, savings, files>>

\* choice "7": save both files and leave
FanExit ==
    /\ app = "fanctional" /\ pc = "menu"
    /\ \E failing \in WriteFailures :
         LET w1 == Write(files, TRANSACTIONS_FILE, transactions, failing)
             w2 == Write(w1.files, BUDGETS_FILE, budgets, failing)
         IN  IF w1.err # "none" THEN files' = w1.files /\ err' = w1.err
             ELSE files' = w2.files /\ err' = w2.err
    /\ pc' = IF err' = "none" THEN "exited" ELSE "crashed"
    /\ op' = "exit" /\ out' = NoOut
    /\ UNCHANGED <<app, transactions, budgets, savings>>

----------------------------------------------------------------------------
(* Specifications.  The programs start (load), then the user picks menu    *)
(* commands.  SpecLedger follows the commands on transactions and budgets, *)
(* SpecSavings the savings commands; Spec allows every command.            *)

Start == ImpStart \/ FunStart \/ FanStart

Summarize == ImpSummarize \/ FunSummarize \/ FanSummarize

Exit == ImpExit \/ FunExit \/ FanExit

NextLedger ==
    \/ Start
    \/ ImpRecord \/ ImpSetBudget \/ ImpCheckAlerts \/ ImpImport \/ ImpExport
    \/ FunRecord \/ FunSetBudget \/ FunCheckAlerts \/ FunImport
    \/ FanRecord \/ FanSetBudget \/ FanUtilization
    \/ Exit

NextSavings ==
    \/ Start
    \/ ImpSetGoal \/ ImpDeposit
    \/ FunSetGoal \/ FunDeposit
    \/ FanTarget
    \/ Exit

Next == NextLedger \/ NextSavings \/ Summarize \/ FanTrends

InitLedger == Init /\ files[SAVINGS_FILE] = Absent

SpecLedger == InitLedger /\ [][NextLedger]_vars

SpecSavings == Init /\ [][NextSavings]_vars

(* The reports are explored on ledgers a run finds on disk, their amounts  *)
(* binary64 values: 100.0, 50.0, 7.0, 0.1, 0.2, 0.3.                       *)
F100 == Binary64(<<1, 9, 0, 0, 0, 0, 0, 0, 0, 0, 0, 0, 0, 0>>, 6)
F50  == Binary64(<<1, 9, 0, 0, 0, 0, 0, 0, 0, 0, 0, 0, 0, 0>>, 5)
F7   == Binary64(<<1, 12, 0, 0, 0, 0, 0, 0, 0, 0, 0, 0, 0, 0>>, 2)
F01  == Binary64(<<1, 9, 9, 9, 9, 9, 9, 9, 9, 9, 9, 9, 9, 10>>, -4)
F02  == Binary64(<<1, 9, 9, 9, 9, 9, 9, 9, 9, 9, 9, 9, 9, 10>>, -3)
F03  == Binary64(<<1, 3, 3, 3, 3, 3, 3, 3, 3, 3, 3, 3, 3, 3>>, -2)

ReportLedgers ==
    { <<>>,
      << Txn(F100, "food", "expense", "2024-01-05"),
         Txn(F50, "food", "expense", "2024-02-10") >>,
      << Txn(F100, "food", "income", "2024-01-05"),
         Txn(F50, "rent", "expense", "2024-01-05"),
         Txn(F7, "food", "expense", "2024-02-10") >>,
      << Txn(F01, "food", "expense", "2024-01-05"),
         Txn(F02, "food", "expense", "2024-01-05"),
         Txn(F03, "food", "expense", "2024-02-10") >>,
      << Txn(F03, "rent", "expense", "2024-02-10"),
         Txn(F02, "food", "income", "2024-02-10"),
         Txn(F01, "rent", "expense", "2024-01-05") >>,
      << Txn(F7, "food", "expense", "2024-01-05"),
         Txn(F7, "food", "expense", "2024-01") >>,
      << Txn(F7, "rent", "expense", "2024") >>,
      << Txn(F50, "food", "expense", "2024-02-10"),
         Txn(F7, "rent", "income", "2024-ab-05") >> }

InitReports ==
    /\ app \in Apps
    /\ pc = "start"
    /\ transactions = <<>>
    /\ budgets = NoBudgets
    /\ savings = DefaultSavings
    /\ \E ledger \in ReportLedgers, b \in InitialBudgets, s \in InitialSavings :
          files = [name \in FileNames |->
                      CASE name = TRANSACTIONS_FILE -> Json(ledger)
                        [] name = BUDGETS_FILE -> b
                        [] OTHER -> s]
    /\ op = "init"
    /\ err = "none"
    /\ out = NoOut

NextReports ==
    \/ Start
    \/ Summarize
    \/ FanTrends
    \/ Exit

SpecReports == InitReports /\ [][NextReports]_vars

Spec == Init /\ [][Next]_vars

----------------------------------------------------------------------------
(* The ledger as the running program holds it: the functional program      *)
(* keeps nothing between commands and reads the files each time.           *)

FileDoc(name, default) ==
    IF files[name].kind = "json" THEN files[name].doc ELSE default

LedgerTransactions ==
    IF app = "functional" THEN FileDoc(TRANSACTIONS_FILE, <<>>) ELSE transactions

LedgerBudgets ==
    IF app = "functional" THEN FileDoc(BUDGETS_FILE, NoBudgets) ELSE budgets

LedgerSavings ==
    IF app = "functional" THEN FileDoc(SAVINGS_FILE, EmptySavings) ELSE savings

\* the in-memory collection save_state writes to the file `name`
Memory(name) ==
    CASE name = TRANSACTIONS_FILE -> transactions
      [] name = BUDGETS_FILE -> budgets
      [] OTHER -> savings

Persisted(name) == files[name].kind = "json" /\ files[name].doc = Memory(name)

----------------------------------------------------------------------------
(* Reference definitions the claims are stated with *)

\* the positions of the expense transactions of category c in T
ExpensesOf(T, c) ==
    { i \in 1..Len(T) : T[i].type = "expense" /\ T[i].category = c }

RECURSIVE SumAmounts(_, _)
SumAmounts(T, I) ==
    IF I = {} THEN 0
    ELSE LET i == CHOOSE j \in I : TRUE
         IN  T[i].amount + SumAmounts(T, I \ {i})

ExpenseSum(T, c) == SumAmounts(T, ExpensesOf(T, c))

FirstExpense(T, c) == CHOOSE i \in ExpensesOf(T, c) : \A j \in ExpensesOf(T, c) : i <= j

\* the categories the alert rule selects: budgeted with a positive limit,
\* at least one expense, spent / limit >= 0.9
ShouldAlert(T, B) ==
    { c \in DOMAIN B : /\ B[c] > 0
                       /\ ExpensesOf(T, c) # {}
                       /\ 10 * ExpenseSum(T, c) >= 9 * B[c] }

Range(seq) == { seq[i] : i \in 1..Len(seq) }

\* the alert evaluation ran in the last command (on the ledger as it now is)
AlertsEvaluated ==
    /\ app \in { "imperative", "functional" }
    /\ op \in { "alerts", "record" }
    /\ err \in { "none", "ZeroDivisionError" }

----------------------------------------------------------------------------
(* C1: evaluating alerts never raises a division-by-zero fault, and no     *)
(* alert is printed for a category whose budget limit is 0, whatever was   *)
(* spent in it.                                                            *)
C1_ZeroLimitGuarded ==
    AlertsEvaluated =>
        /\ err # "ZeroDivisionError"
        /\ \A c \in Range(out.alerts) : LedgerBudgets[c] # 0

(* C2: an alert is printed for category c exactly when c has a budget with *)
(* limit > 0, at least one expense, and spent / limit >= 0.9; the alerts   *)
(* come in the order of each category's first expense.                     *)
C2_AlertsExactlyOverThreshold ==
    AlertsEvaluated =>
        /\ Range(out.alerts) = ShouldAlert(LedgerTransactions, LedgerBudgets)
        /\ \A i, j \in 1..Len(out.alerts) :
              i < j => FirstExpense(LedgerTransactions, out.alerts[i])
                         < FirstExpense(LedgerTransactions, out.alerts[j])

(* C3: when one write of a save fails, the other resources are still saved: *)
(* at most the failing resource's file differs from the collection in      *)
(* memory.                                                                 *)
C3_SaveFailureIsolated ==
    /\ (app = "imperative" /\ err = "OSError") =>
          Cardinality({ name \in FileNames : ~Persisted(name) }) <= 1
    /\ (app = "fanctional" /\ op = "exit" /\ err = "OSError") =>
          Cardinality({ name \in { TRANSACTIONS_FILE, BUDGETS_FILE } :
                          ~Persisted(name) }) <= 1

(* C4: an import in which a row fails validation leaves the transactions,  *)
(* in memory and on disk, exactly as they were before the import.          *)
C4_ImportAllOrNothing ==
    [][ (op' = "import" /\ err' = "ValueError") =>
            /\ transactions' = transactions
            /\ files'[TRANSACTIONS_FILE] = files[TRANSACTIONS_FILE] ]_vars

(* C5: no load aborts on an absent or unparseable resource; after the load *)
(* each collection is the persisted document, or its zero value when there *)
(* was none.                                                               *)
C5_LoadFailsSoft ==
    /\ app \in { "imperative", "functional" } =>
          err \notin { "JSONDecodeError", "FileNotFoundError" }
    /\ (op = "load" /\ app = "imperative") =>
          /\ transactions = FileDoc(TRANSACTIONS_FILE, <<>>)
          /\ budgets = FileDoc(BUDGETS_FILE, NoBudgets)
          /\ savings = FileDoc(SAVINGS_FILE, DefaultSavings)

\* a deposit whose amount parsed and whose file accesses succeeded
Deposited ==
    op = "deposit" /\ err \notin { "ValueError", "OSError", "JSONDecodeError" }

(* C6: a deposit completes in every savings state, the default one         *)
(* included: it adds the amount to current savings, persists the new       *)
(* value, reports goal-reached exactly when current savings >= goal after  *)
(* the update, and leaves goal and recommended monthly unchanged.          *)
C6_DepositCompletes ==
    [][ Deposited' =>
          /\ err' = "none"
          /\ \E raw \in RawDeposits :
                /\ float(raw).err = "none"
                /\ SavingsGet(LedgerSavings', "current_savings", 0)
                     = SavingsGet(LedgerSavings, "current_savings", 0) + float(raw).val
          /\ out'.goalReached = (SavingsGet(LedgerSavings', "current_savings", 0)
                                   >= SavingsGet(LedgerSavings', "goal", 0))
          /\ files'[SAVINGS_FILE].kind = "json"
          /\ files'[SAVINGS_FILE].doc.current_savings = LedgerSavings'.current_savings
          /\ SavingsGet(LedgerSavings', "goal", 0) = SavingsGet(LedgerSavings, "goal", 0)
          /\ SavingsGet(LedgerSavings', "recommended_monthly", Zero)
               = SavingsGet(LedgerSavings, "recommended_monthly", Zero) ]_vars

\* every savings dict of the state: the one in use and the one on disk
SavingsStates ==
    { LedgerSavings } \cup
    (IF files[SAVINGS_FILE].kind = "json" THEN { files[SAVINGS_FILE].doc } ELSE {})

\* recommended_monthly is present with goal and is goal / 12
MonthlyIsGoalOver12(s) ==
    /\ ("goal" \in s.keys) = ("recommended_monthly" \in s.keys)
    /\ 12 * s.recommended_monthly.n = s.goal * s.recommended_monthly.d

(* C7: in every savings state, recommended monthly is goal / 12            *)
(* (12 * recommended_monthly = goal); setting the goal stores the goal     *)
(* entered and leaves current savings untouched; a deposit leaves goal and *)
(* recommended monthly untouched.                                          *)
C7_MonthlyIsGoalOver12 ==
    /\ [](\A s \in SavingsStates : MonthlyIsGoalOver12(s))
    /\ [][ /\ (op' = "set_goal" /\ err' = "none") =>
                /\ \E raw \in RawGoals :
                      float(raw).err = "none" /\ LedgerSavings'.goal = float(raw).val
                /\ SavingsGet(LedgerSavings', "current_savings", 0)
                     = SavingsGet(LedgerSavings, "current_savings", 0)
           /\ op' = "deposit" =>
                /\ SavingsGet(LedgerSavings', "goal", 0)
                     = SavingsGet(LedgerSavings, "goal", 0)
                /\ SavingsGet(LedgerSavings', "recommended_monthly", Zero)
                     = SavingsGet(LedgerSavings, "recommended_monthly", Zero) ]_vars

\* a goal of 30 was set (2.5 a month), then 30 deposited
C7_Witness ==
    /\ op = "deposit" /\ err = "none"
    /\ LedgerSavings.goal = 30
    /\ LedgerSavings.recommended_monthly = [n |-> 5, d |-> 2]
    /\ LedgerSavings.current_savings = 30

(* C8: no stored transaction, in memory or on disk, has a negative amount. *)
C8_NoNegativeAmount ==
    /\ \A i \in 1..Len(LedgerTransactions) : LedgerTransactions[i].amount >= 0
    /\ \A i \in 1..Len(FileDoc(TRANSACTIONS_FILE, <<>>)) :
          FileDoc(TRANSACTIONS_FILE, <<>>)[i].amount >= 0

(* C9: computing the monthly savings target never raises an arithmetic     *)
(* fault: months <= 0 is rejected as invalid input, and a target is        *)
(* printed only for months > 0, where it is goal / months.                 *)
C9_TargetNeverFaults ==
    op = "target" =>
        /\ err \in { "none", "ValueError" }
        /\ err = "none" =>
              \E rawGoal \in RawGoals, rawMonths \in RawMonths :
                 /\ float(rawGoal).err = "none" /\ int(rawMonths).err = "none"
                 /\ int(rawMonths).val > 0
                 /\ out.target = Frac(float(rawGoal).val, int(rawMonths).val)

\* utilization U maps exactly the budgeted categories with an expense in T
\* to the sum of their expenses
UtilizationExact(U, T, B) ==
    /\ Len(U) = Cardinality(DictKeys(U))
    /\ DictKeys(U) = { c \in DOMAIN B : ExpensesOf(T, c) # {} }
    /\ \A c \in DictKeys(U) : DictGet(U, c, 0) = ExpenseSum(T, c)

(* C10: for the transactions T and budgets B of every reachable state,     *)
(* both calculate_budget_utilization functions map exactly the categories  *)
(* that are keys of B and have an expense in T to the sum of their expense *)
(* amounts, and so does the utilization the menu command prints.           *)
C10_UtilizationExact ==
    LET T == LedgerTransactions
        B == LedgerBudgets
    IN  /\ UtilizationExact(FanCalculateBudgetUtilization(T, B), T, B)
        /\ UtilizationExact(FunCalculateBudgetUtilization(T, B), T, B)
        /\ op = "utilization" => UtilizationExact(out.utilization, T, B)

\* utilization printed with a budgeted category spent in, while another
\* category has expenses and no budget
C10_Witness ==
    /\ op = "utilization"
    /\ out.utilization # <<>>
    /\ \E c \in Categories \ DOMAIN budgets : ExpensesOf(transactions, c) # {}

\* the fields of a date
DateFields(date) == Split(Text(date), "-")

\* a date that is not year-month-day with a numeric month
Malformed(date) == Len(DateFields(date)) # 3 \/ ~IsDigits(DateFields(date)[2])

\* the amounts of the first n transactions of T whose month is m, added in
\* list order (the dates of T well formed)
RECURSIVE MonthTotal(_, _, _)
MonthTotal(T, m, n) ==
    IF n = 0 THEN FloatZero
    ELSE IF DigitsVal(DateFields(T[n].date)[2]) = m
         THEN Plus(MonthTotal(T, m, n - 1), T[n].amount)
         ELSE MonthTotal(T, m, n - 1)

(* C11: the trend command totals, for each of the two months asked, the    *)
(* amounts of all transactions of that month, income and expense alike     *)
(* (100 and 50 for months 1 and 2 of the example ledger); when a           *)
(* transaction's date is malformed (wrong field count or non-numeric       *)
(* month) the command raises an error instead of printing totals.          *)
C11_TrendsSumEveryKind ==
    op = "trends" =>
        IF \E i \in 1..Len(transactions) : Malformed(transactions[i].date)
        THEN err # "none"
        ELSE /\ err \in { "none", "ValueError" }
             /\ err = "none" =>
                   \E rawCurrent \in RawTrendMonths, rawPrevious \in RawTrendMonths :
                      /\ int(rawCurrent).err = "none" /\ int(rawPrevious).err = "none"
                      /\ out.trends =
                           [current |-> MonthTotal(transactions, int(rawCurrent).val,
                                                   Len(transactions)),
                            previous |-> MonthTotal(transactions, int(rawPrevious).val,
                                                    Len(transactions))]

\* the lists with the transactions of T in another order
Reordered(T) ==
    { [i \in 1..Len(T) |-> T[p[i]]] : p \in Permutations(1..Len(T)) }

\* the category totals program a computes for the list ts
SummaryOf(a, ts) ==
    CASE a = "imperative" -> ImpSummarizeSpending(ts).category_totals
      [] a = "functional" -> FunSummarizeSpending(ts).category_totals
      [] OTHER -> summarize_spending(ts)

\* a dict as a mapping, the order of its keys forgotten
AsMapping(d) == [c \in DictKeys(d) |-> DictGet(d, c, FloatZero)]

(* C12: the category totals of a ledger are the same mapping for every     *)
(* order of its transactions; the categories are those of the expense      *)
(* transactions, and the empty ledger gives the empty mapping.             *)
C12_TotalsOrderFree ==
    (op = "summary" /\ err = "none") =>
        /\ \A P \in Reordered(LedgerTransactions) :
              AsMapping(SummaryOf(app, P)) = AsMapping(out.summary)
        /\ DictKeys(out.summary) =
              { LedgerTransactions[i].category :
                  i \in { j \in 1..Len(LedgerTransactions) :
                            LedgerTransactions[j].type = "expense" } }
        /\ LedgerTransactions = <<>> => out.summary = <<>>

====
